---- MODULE Spec2Model ----
(***************************************************************************)
(* Model of the decision engine in scripts/mario_expert.py: the Grid       *)
(* Scanner (find_position), the Navigation Heuristic                       *)
(* (mario_movement_to_loot), the Action Selector (game_fsm), the Mode      *)
(* Classifier (next_state) and the per-tick composition (step).            *)
(*                                                                         *)
(* The emulator is external.  Its tile grid and the four memory bytes the  *)
(* engine reads are environment state: they change while run_action holds  *)
(* a button and are otherwise only read.                                   *)
(*                                                                         *)
(* A Python call either returns a value or raises.  Every modelled         *)
(* function yields a record [exc, val]: exc is "none" or the name of the   *)
(* exception, val the returned value.                                      *)
(***************************************************************************)
EXTENDS Integers, Sequences, FiniteSets, TLC

VARIABLES
    game_area,      \* environment: the tile grid game_area() returns now
    ground,         \* environment: byte at MARIO_TOUCHING_GROUND (0xC20A)
    speed,          \* environment: byte at MARIO_SPEED (0xC20C)
    mario_x,        \* environment: byte at 0xC202
    enemy_x,        \* environment: byte at 0xD103
    current_state,  \* self.current_state
    mode_in,        \* the mode next_state matched on in this tick (0: not run in this tick)
    snap_mode,      \* the mode next_state would have set on the grid game_fsm captured (0: it would raise, or no tick yet)
    consumable,     \* tile code passed to a find_position or mario_movement_to_loot call taken on its own, else 0
    position,       \* result of a find_position call taken on its own
    action,         \* step's local `action` (-1: unbound)
    duration,       \* step's local `duration` (-1: unbound)
    exc,            \* "none", or the exception that ended the program
    pc              \* position inside step()

vars == <<game_area, ground, speed, mario_x, enemy_x, current_state, mode_in,
          snap_mode, consumable, position, action, duration, exc, pc>>

(***************************************************************************)
(* Program constants.                                                      *)
(***************************************************************************)
DOWN_ARROW == 0
LEFT_ARROW == 1
RIGHT_ARROW == 2
UP_ARROW == 3
BUTTON_A == 4
BUTTON_B == 5

NORMAL_MODE == 1
ENEMY_MODE == 2
COIN_MODE == 3

\* MarioController.__init__ default, stored as self.act_freq
act_freq == 6
\* the duration of the tuple game_fsm returns in NORMAL_MODE
JumpDuration == 10
\* the two gap thresholds of game_fsm's ENEMY_MODE case
JumpNowGap == 15
CloseGap == 5

Actions == {DOWN_ARROW, LEFT_ARROW, RIGHT_ARROW, UP_ARROW, BUTTON_A, BUTTON_B}
Modes == {NORMAL_MODE, ENEMY_MODE, COIN_MODE}
\* the last of the powerup constants; powerup_state is written once, in __init__,
\* and read nowhere
INVINCIBLE_MODE == 4

(***************************************************************************)
(* Bounds of the model.  The emulator's grid is larger; here it has        *)
(* NumRows rows, NumCols columns and at most three non-empty cells.  Tile  *)
(* 15 stands for every code outside the benign list, 14 also for 10.       *)
(***************************************************************************)
NumRows == 2
NumCols == 4

RowIdx == 0 .. (NumRows - 1)
ColIdx == 0 .. (NumCols - 1)
TileCounts == 0 .. 3
Cells == RowIdx \X ColIdx
Tiles == {0, 1, 6, 13, 14, 15}
NonEmptyTiles == Tiles \ {0}

\* the grid holding f's tiles on the cells S and 0 elsewhere
GridOf(S, f) ==
    [r \in RowIdx |-> [c \in ColIdx |-> IF <<r, c>> \in S THEN f[<<r, c>>] ELSE 0]]

\* the sets of cells a grid may fill
TileSets == {T \in SUBSET Cells : Cardinality(T) \in TileCounts}

\* grid is any grid whose number of non-empty cells is in TileCounts
AnyGrid(grid) == \E S \in TileSets : \E f \in [S -> NonEmptyTiles] : grid = GridOf(S, f)

TileCount(grid) == Cardinality({p \in Cells : grid[p[1]][p[2]] # 0})

(***************************************************************************)
(* Python values.                                                          *)
(***************************************************************************)
None == <<>>
Ret(v) == [exc |-> "none", val |-> v]
Raise(e) == [exc |-> e, val |-> None]

\* truth value of an int in a condition
Truthy(x) == x # 0

\* ~ on an unsigned 8-bit value instead
BitNot_uint8(x) == 255 - x

\* ~x on a Python int
BitNot(x) == (0 - x) - 1

(***************************************************************************)
(* find_position                                                           *)
(***************************************************************************)
\* the cells in the order np.where lists them (row-major)
RowMajor == [i \in 1 .. Cardinality(Cells) |->
                <<(i - 1) \div NumCols, (i - 1) % NumCols>>]

np_where(grid, value) ==
    SelectSeq(RowMajor, LAMBDA p : grid[p[1]][p[2]] = value)

\* the last match taken instead of the first
find_position_last(grid, value) ==
    LET result == np_where(grid, value)
    IN  IF Len(result) > 0 THEN result[Len(result)] ELSE None

find_position(grid, value) ==
    LET result == np_where(grid, value)
    IN  IF Len(result) > 0 THEN result[1] ELSE None

\* np.any(np.isin(grid, codes))
any_isin(grid, codes) == \E p \in Cells : grid[p[1]][p[2]] \in codes

\* np.any(~np.isin(grid, codes))
any_not_isin(grid, codes) == \E p \in Cells : grid[p[1]][p[2]] \notin codes

\* game_area[row][col]: IndexError outside the array
InGrid(row, col) == row \in RowIdx /\ col \in ColIdx

(***************************************************************************)
(* mario_movement_to_loot                                                  *)
(***************************************************************************)
\* a band of the column ahead only
InBand_ahead(mario_col, loot_col) == loot_col = mario_col + 1

\* loot_col == mario_col or loot_col == mario_col + 1
InBand(mario_col, loot_col) == loot_col = mario_col \/ loot_col = mario_col + 1

\* the second test written with `not g` and `s != 0`
direction_chain_boolean(mario_row, mario_col, loot_row, loot_col, g, s) ==
    IF InBand(mario_col, loot_col) /\ Truthy(g) /\ s = 0
    THEN BUTTON_A
    ELSE IF (InBand(mario_col, loot_col) /\ ~Truthy(g)) \/ s # 0
    THEN DOWN_ARROW
    ELSE IF mario_col < loot_col
    THEN RIGHT_ARROW
    ELSE IF mario_col > loot_col
    THEN LEFT_ARROW
    ELSE IF mario_row < loot_row /\ Truthy(g) /\ s = 0
    THEN BUTTON_A
    ELSE DOWN_ARROW

\* the if/elif chain of lines 176-187; g and s are the two _read_m results
direction_chain(mario_row, mario_col, loot_row, loot_col, g, s) ==
    IF InBand(mario_col, loot_col) /\ Truthy(g) /\ s = 0
    THEN BUTTON_A
    ELSE IF (InBand(mario_col, loot_col) /\ Truthy(BitNot(g))) \/ BitNot(s) = 0
    THEN DOWN_ARROW
    ELSE IF mario_col < loot_col
    THEN RIGHT_ARROW
    ELSE IF mario_col > loot_col
    THEN LEFT_ARROW
    ELSE IF mario_row < loot_row /\ Truthy(g) /\ s = 0
    THEN BUTTON_A
    ELSE DOWN_ARROW

\* which test of the chain at lines 176-187 decides (numbered as the rules 4-9)
deciding_rule(mario_row, mario_col, loot_row, loot_col, g, s) ==
    IF InBand(mario_col, loot_col) /\ Truthy(g) /\ s = 0
    THEN 4
    ELSE IF (InBand(mario_col, loot_col) /\ Truthy(BitNot(g))) \/ BitNot(s) = 0
    THEN 5
    ELSE IF mario_col < loot_col
    THEN 6
    ELSE IF mario_col > loot_col
    THEN 7
    ELSE IF mario_row < loot_row /\ Truthy(g) /\ s = 0
    THEN 8
    ELSE 9

\* the missing target answered with the direction computed so far, RIGHT first
mario_movement_to_loot_default(grid, target, g, s) ==
    LET mario_position == find_position(grid, 1)
        loot_position == find_position(grid, target)
    IN  IF loot_position = None
        THEN Ret(RIGHT_ARROW)
        ELSE IF mario_position = None
        THEN Raise("TypeError")
        ELSE Ret(direction_chain(mario_position[1], mario_position[2],
                                 loot_position[1], loot_position[2], g, s))

mario_movement_to_loot(grid, target, g, s) ==
    LET mario_position == find_position(grid, 1)
        loot_position == find_position(grid, target)
        \* lines 166-169: assigned, then overwritten or never returned
        direction_to_loot ==
            IF mario_position = None THEN RIGHT_ARROW ELSE DOWN_ARROW
    IN  IF loot_position = None
        THEN Ret(DOWN_ARROW)
        ELSE IF mario_position = None
        THEN Raise("TypeError")     \* line 173 unpacks None
        ELSE Ret(direction_chain(mario_position[1], mario_position[2],
                                 loot_position[1], loot_position[2], g, s))

(***************************************************************************)
(* game_fsm.  The returned val is <<a>> for a bare action a and <<a, d>>   *)
(* for the tuple (a, d).                                                   *)
(***************************************************************************)
\* the jump returned as a bare action, without its duration
fsm_normal_bare(grid, mario_row, mario_col) ==
    IF ~InGrid(mario_row, mario_col + 3)
    THEN Raise("IndexError")
    ELSE IF grid[mario_row][mario_col + 3] # 0
    THEN Ret(<<BUTTON_A>>)
    ELSE Ret(<<RIGHT_ARROW>>)

fsm_normal(grid, mario_row, mario_col) ==
    IF ~InGrid(mario_row, mario_col + 3)
    THEN Raise("IndexError")
    ELSE IF grid[mario_row][mario_col + 3] # 0
    THEN Ret(<<BUTTON_A, JumpDuration>>)
    ELSE Ret(<<RIGHT_ARROW>>)

\* the two thresholds the other way round
fsm_enemy_swapped(g, s, mx, ex) ==
    IF (mx - ex) < CloseGap /\ Truthy(g) THEN Ret(<<BUTTON_A>>)
    ELSE IF (mx - ex) < JumpNowGap /\ Truthy(g) /\ s = 0 THEN Ret(<<BUTTON_A>>)
    ELSE Ret(<<DOWN_ARROW>>)

fsm_enemy(g, s, mx, ex) ==
    IF (mx - ex) < JumpNowGap /\ Truthy(g)
    THEN Ret(<<BUTTON_A>>)
    ELSE IF (mx - ex) < CloseGap /\ Truthy(g) /\ s = 0
    THEN Ret(<<BUTTON_A>>)
    ELSE Ret(<<DOWN_ARROW>>)

\* the ordinary collectible looked for first instead
coin_target_13first(grid) == IF any_isin(grid, {13}) THEN 13 ELSE 6

\* the target code game_fsm passes on in COIN_MODE
coin_target(grid) == IF any_isin(grid, {6}) THEN 6 ELSE 13

fsm_coin(grid, g, s) ==
    LET r == mario_movement_to_loot(grid, coin_target(grid), g, s)
    IN  IF r.exc = "none" THEN Ret(<<r.val>>) ELSE r

game_fsm(grid, mode, g, s, mx, ex) ==
    LET mario_grid_position == find_position(grid, 1)
    IN  IF mario_grid_position = None
        THEN Raise("TypeError")     \* line 198 unpacks None
        ELSE LET mario_row == mario_grid_position[1]
                 mario_col == mario_grid_position[2]
             IN  CASE mode = NORMAL_MODE -> fsm_normal(grid, mario_row, mario_col)
                   [] mode = ENEMY_MODE -> fsm_enemy(g, s, mx, ex)
                   [] mode = COIN_MODE -> fsm_coin(grid, g, s)
                   [] OTHER -> Ret(None)

(***************************************************************************)
(* next_state.  val is the new self.current_state.                         *)
(***************************************************************************)
Benign == {0, 1, 10, 13, 14, 6}
Loot == {13, 6}
Plain == {0, 1, 10, 13, 14}

\* the loot test ahead of the hostile test
classify_normal_lootfirst(grid, mode) ==
    IF any_isin(grid, Loot) THEN COIN_MODE
    ELSE IF any_not_isin(grid, Benign) THEN ENEMY_MODE
    ELSE IF any_isin(grid, Plain) THEN NORMAL_MODE
    ELSE mode

\* the chain of the NORMAL_MODE case, lines 230-235
\* the NORMAL_MODE case storing a powerup constant for a collectible
classify_normal_powerup(grid, mode) ==
    IF any_not_isin(grid, Benign) THEN ENEMY_MODE
    ELSE IF any_isin(grid, Loot) THEN INVINCIBLE_MODE
    ELSE IF any_isin(grid, Plain) THEN NORMAL_MODE
    ELSE mode

classify_normal(grid, mode) ==
    IF any_not_isin(grid, Benign) THEN ENEMY_MODE
    ELSE IF any_isin(grid, Loot) THEN COIN_MODE
    ELSE IF any_isin(grid, Plain) THEN NORMAL_MODE
    ELSE mode

\* the COIN_MODE case without its early exit
classify_coin_noexit(grid, mode, mario_row, mario_col) ==
    IF any_not_isin(grid, Benign) THEN ENEMY_MODE
    ELSE IF any_isin(grid, Loot) THEN COIN_MODE
    ELSE IF any_isin(grid, Benign) THEN NORMAL_MODE
    ELSE mode

\* the chain of the COIN_MODE case, lines 237-244
classify_coin(grid, mode, mario_row, mario_col) ==
    IF grid[mario_row][mario_col + 3] # 0 THEN NORMAL_MODE
    ELSE IF any_not_isin(grid, Benign) THEN ENEMY_MODE
    ELSE IF any_isin(grid, Loot) THEN COIN_MODE
    ELSE IF any_isin(grid, Benign) THEN NORMAL_MODE
    ELSE mode

\* the ENEMY_MODE case with its early exit after the hostile test
classify_enemy_exitlate(grid, mode, mario_row, mario_col) ==
    IF any_not_isin(grid, Benign) THEN ENEMY_MODE
    ELSE IF grid[mario_row][mario_col + 3] # 0 THEN NORMAL_MODE
    ELSE IF any_isin(grid, Loot) THEN COIN_MODE
    ELSE IF any_isin(grid, Plain) THEN NORMAL_MODE
    ELSE mode

\* the ENEMY_MODE case testing for 13 alone
classify_enemy_only13(grid, mode, mario_row, mario_col) ==
    IF grid[mario_row][mario_col + 3] # 0 THEN NORMAL_MODE
    ELSE IF any_not_isin(grid, Benign) THEN ENEMY_MODE
    ELSE IF any_isin(grid, {13}) THEN COIN_MODE
    ELSE IF any_isin(grid, Plain) THEN NORMAL_MODE
    ELSE mode

\* the chain of the ENEMY_MODE case, lines 246-253
classify_enemy(grid, mode, mario_row, mario_col) ==
    IF grid[mario_row][mario_col + 3] # 0 THEN NORMAL_MODE
    ELSE IF any_not_isin(grid, Benign) THEN ENEMY_MODE
    ELSE IF any_isin(grid, Loot) THEN COIN_MODE
    ELSE IF any_isin(grid, Plain) THEN NORMAL_MODE
    ELSE mode

next_state(grid, mode) ==
    LET mario_grid_position == find_position(grid, 1)
    IN  IF mario_grid_position = None
        THEN Raise("TypeError")     \* line 224 unpacks None
        ELSE LET mario_row == mario_grid_position[1]
                 mario_col == mario_grid_position[2]
             IN  IF ~InGrid(mario_row, mario_col + 2)
                 THEN Raise("IndexError")   \* the f-string of line 227
                 ELSE CASE mode = NORMAL_MODE ->
                             Ret(classify_normal(grid, mode))
                        [] mode = COIN_MODE ->
                             IF ~InGrid(mario_row, mario_col + 3)
                             THEN Raise("IndexError")
                             ELSE Ret(classify_coin(grid, mode, mario_row, mario_col))
                        [] mode = ENEMY_MODE ->
                             IF ~InGrid(mario_row, mario_col + 3)
                             THEN Raise("IndexError")
                             ELSE Ret(classify_enemy(grid, mode, mario_row, mario_col))
                        [] OTHER -> Ret(mode)

(***************************************************************************)
(* The engine: MarioExpert.step, called by play() until the game is over.  *)
(***************************************************************************)
\* the readings the engine's environment takes
GroundVals == {0, 1}
SpeedVals == {0, 1}
MarioXVals == {20}
EnemyXVals == {0, 20}

Init ==
    /\ AnyGrid(game_area)
    /\ ground \in GroundVals
    /\ speed \in SpeedVals
    /\ mario_x \in MarioXVals
    /\ enemy_x \in EnemyXVals
    /\ current_state = NORMAL_MODE
    /\ mode_in = 0
    /\ snap_mode = 0
    /\ consumable = 0
    /\ position = None
    /\ action = -1
    /\ duration = -1
    /\ exc = "none"
    /\ pc = "loop"

\* a selector that also resets the mode when it chooses to jump
ChooseAction_resets ==
    /\ pc = "loop"
    /\ LET r == game_fsm(game_area, current_state, ground, speed, mario_x, enemy_x)
       IN  IF r.exc # "none"
           THEN /\ exc' = r.exc
                /\ pc' = "raised"
                /\ UNCHANGED <<action, duration, current_state>>
           ELSE /\ action' = r.val[1]
                /\ duration' = IF Len(r.val) = 2 THEN r.val[2] ELSE act_freq
                /\ current_state' = IF r.val[1] = BUTTON_A THEN NORMAL_MODE
                                    ELSE current_state
                /\ pc' = "run"
                /\ exc' = exc
    /\ mode_in' = 0
    /\ snap_mode' = 0
    /\ UNCHANGED <<game_area, ground, speed, mario_x, enemy_x, consumable,
                   position>>

\* lines 279-286: choose_action (game_fsm), then unpack action and duration
ChooseAction ==
    /\ pc = "loop"
    /\ LET r == game_fsm(game_area, current_state, ground, speed, mario_x, enemy_x)
       IN  IF r.exc # "none"
           THEN /\ exc' = r.exc
                /\ pc' = "raised"
                /\ UNCHANGED <<action, duration>>
           ELSE /\ action' = r.val[1]
                /\ duration' = IF Len(r.val) = 2 THEN r.val[2] ELSE act_freq
                /\ pc' = "run"
                /\ exc' = exc
    /\ mode_in' = 0
    /\ snap_mode' = LET c == next_state(game_area, current_state)
                    IN  IF c.exc = "none" THEN c.val ELSE 0
    /\ UNCHANGED <<game_area, ground, speed, mario_x, enemy_x, current_state,
                   consumable, position>>

\* what the emulator may do to the grid and the bytes while a button is held:
\* nothing, one cell changed, or one byte changed
EnvChange ==
    \/ UNCHANGED <<game_area, ground, speed, mario_x, enemy_x>>
    \/ /\ \E p \in Cells, t \in Tiles :
            /\ game_area' = [game_area EXCEPT ![p[1]][p[2]] = t]
            /\ TileCount(game_area') \in TileCounts
       /\ UNCHANGED <<ground, speed, mario_x, enemy_x>>
    \/ /\ ground' \in GroundVals
       /\ UNCHANGED <<game_area, speed, mario_x, enemy_x>>
    \/ /\ speed' \in SpeedVals
       /\ UNCHANGED <<game_area, ground, mario_x, enemy_x>>
    \/ /\ mario_x' \in MarioXVals
       /\ enemy_x' \in EnemyXVals
       /\ UNCHANGED <<game_area, ground, speed>>

\* line 289: environment.run_action(action, duration); the locals are dead after it
RunAction ==
    /\ pc = "run"
    /\ action \in Actions
    /\ EnvChange
    /\ action' = -1
    /\ duration' = -1
    /\ pc' = "classify"
    /\ UNCHANGED <<current_state, mode_in, snap_mode, consumable, position, exc>>

\* a classifier handed the grid the selector captured
NextState_snapshot ==
    /\ pc = "classify"
    /\ IF snap_mode = 0
       THEN /\ exc' = "TypeError"
            /\ pc' = "raised"
            /\ UNCHANGED current_state
       ELSE /\ current_state' = snap_mode
            /\ pc' = "loop"
            /\ exc' = exc
    /\ mode_in' = current_state
    /\ UNCHANGED <<game_area, ground, speed, mario_x, enemy_x, snap_mode,
                   consumable, position, action, duration>>

\* line 291: self.next_state()
NextState ==
    /\ pc = "classify"
    /\ LET r == next_state(game_area, current_state)
       IN  IF r.exc # "none"
           THEN /\ exc' = r.exc
                /\ pc' = "raised"
                /\ UNCHANGED current_state
           ELSE /\ current_state' = r.val
                /\ pc' = "loop"
                /\ exc' = exc
    /\ mode_in' = current_state
    /\ UNCHANGED <<game_area, ground, speed, mario_x, enemy_x, snap_mode,
                   consumable, position, action, duration>>

Next == ChooseAction \/ RunAction \/ NextState

Spec == Init /\ [][Next]_vars

(***************************************************************************)
(* next_state on its own: any mode the engine can hold, any grid.          *)
(***************************************************************************)
InitClassify ==
    /\ AnyGrid(game_area)
    /\ current_state \in Modes
    /\ ground = 0
    /\ speed = 0
    /\ mario_x = 0
    /\ enemy_x = 0
    /\ mode_in = 0
    /\ snap_mode = 0
    /\ consumable = 0
    /\ position = None
    /\ action = -1
    /\ duration = -1
    /\ exc = "none"
    /\ pc = "classify"

SpecClassify == InitClassify /\ [][NextState]_vars

(***************************************************************************)
(* mario_movement_to_loot on its own: any grid, either target code         *)
(* game_fsm passes, and byte readings around zero, the sign bit and the    *)
(* all-ones byte.                                                          *)
(***************************************************************************)
ByteSamples == {0, 1, 127, 128, 255}

InitNav ==
    /\ AnyGrid(game_area)
    /\ consumable \in {6, 13}
    /\ ground \in ByteSamples
    /\ speed \in ByteSamples
    /\ current_state = COIN_MODE
    /\ mario_x = 0
    /\ enemy_x = 0
    /\ mode_in = 0
    /\ snap_mode = 0
    /\ position = None
    /\ action = -1
    /\ duration = -1
    /\ exc = "none"
    /\ pc = "nav"

\* one call mario_movement_to_loot(game_area, consumable); action holds the result
NavCall ==
    /\ pc = "nav"
    /\ LET r == mario_movement_to_loot(game_area, consumable, ground, speed)
       IN  IF r.exc # "none"
           THEN /\ exc' = r.exc
                /\ pc' = "raised"
                /\ UNCHANGED action
           ELSE /\ action' = r.val
                /\ pc' = "nav_done"
                /\ exc' = exc
    /\ UNCHANGED <<game_area, ground, speed, mario_x, enemy_x, current_state,
                   mode_in, snap_mode, consumable, position, duration>>

SpecNav == InitNav /\ [][NavCall]_vars

(***************************************************************************)
(* game_fsm on its own: any mode the engine can hold, any grid, and the    *)
(* enemy's x on both sides of the two thresholds and ahead of the player.  *)
(***************************************************************************)
\* with mario_x = 20 the differences mario_x - enemy_x are 15, 14, 5, 4, -20
EnemyXSamples == {5, 6, 15, 16, 40}

InitSelect ==
    /\ AnyGrid(game_area)
    /\ current_state \in Modes
    /\ ground \in GroundVals
    /\ speed \in SpeedVals
    /\ mario_x \in MarioXVals
    /\ enemy_x \in EnemyXSamples
    /\ mode_in = 0
    /\ snap_mode = 0
    /\ consumable = 0
    /\ position = None
    /\ action = -1
    /\ duration = -1
    /\ exc = "none"
    /\ pc = "loop"

SpecSelect == InitSelect /\ [][ChooseAction]_vars

(***************************************************************************)
(* find_position on its own: any grid, any tile code (10 is a code no      *)
(* modelled grid holds).                                                   *)
(***************************************************************************)
InitFind ==
    /\ AnyGrid(game_area)
    /\ consumable \in Tiles \cup {10}
    /\ current_state = NORMAL_MODE
    /\ ground = 0
    /\ speed = 0
    /\ mario_x = 0
    /\ enemy_x = 0
    /\ mode_in = 0
    /\ snap_mode = 0
    /\ position = None
    /\ action = -1
    /\ duration = -1
    /\ exc = "none"
    /\ pc = "find"

\* one call find_position(game_area, consumable); position holds the result
FindCall ==
    /\ pc = "find"
    /\ position' = find_position(game_area, consumable)
    /\ pc' = "find_done"
    /\ UNCHANGED <<game_area, ground, speed, mario_x, enemy_x, current_state,
                   mode_in, snap_mode, consumable, action, duration, exc>>

SpecFind == InitFind /\ [][FindCall]_vars

(***************************************************************************)
(* Vocabulary of the properties.                                           *)
(***************************************************************************)
Present(code) == \E p \in Cells : game_area[p[1]][p[2]] = code

\* a tile code outside {0,1,6,10,13,14}
HostilePresent == \E p \in Cells : game_area[p[1]][p[2]] \notin {0, 1, 6, 10, 13, 14}
LootPresent == Present(13) \/ Present(6)

\* the first player cell in row-major order
PlayerCell ==
    CHOOSE p \in Cells :
        /\ game_area[p[1]][p[2]] = 1
        /\ \A q \in Cells : game_area[q[1]][q[2]] = 1 =>
               (p[1] < q[1] \/ (p[1] = q[1] /\ p[2] <= q[2]))

TargetCell ==
    CHOOSE p \in Cells :
        /\ game_area[p[1]][p[2]] = consumable
        /\ \A q \in Cells : game_area[q[1]][q[2]] = consumable =>
               (p[1] < q[1] \/ (p[1] = q[1] /\ p[2] <= q[2]))

\* the cell k columns ahead of the player on the player's row exists
AheadExists(k) == Present(1) /\ PlayerCell[2] + k < NumCols
Ahead(k) == game_area[PlayerCell[1]][PlayerCell[2] + k]
ObstacleAhead == AheadExists(3) /\ Ahead(3) # 0
ClearAhead == AheadExists(3) /\ Ahead(3) = 0

\* game_fsm has just run in this tick (it returned or raised)
Selected == pc = "run" \/ (pc = "raised" /\ mode_in = 0)
\* next_state has just run in this tick (it returned or raised)
Classified == mode_in # 0
\* the calls of next_state that raise
ClassifierRaises ==
    \/ ~Present(1)
    \/ ~AheadExists(2)
    \/ mode_in \in {COIN_MODE, ENEMY_MODE} /\ ~AheadExists(3)
\* the early exit the code takes
ShortcutTaken == mode_in \in {COIN_MODE, ENEMY_MODE} /\ ObstacleAhead
\* hostile -> ENEMY, else 13/6 -> COLLECT, else NORMAL
PriorityOrder ==
    IF HostilePresent THEN ENEMY_MODE
    ELSE IF LootPresent THEN COIN_MODE
    ELSE NORMAL_MODE

\* mario_movement_to_loot has been called
NavCalled == pc \in {"nav_done", "raised"}
TargetInBand ==
    /\ Present(1) /\ Present(consumable)
    /\ (TargetCell[2] = PlayerCell[2] \/ TargetCell[2] = PlayerCell[2] + 1)
TargetOutOfBand ==
    /\ Present(1) /\ Present(consumable)
    /\ TargetCell[2] # PlayerCell[2] /\ TargetCell[2] # PlayerCell[2] + 1

(***************************************************************************)
(* C1.  One engine tick never raises and always yields one of the six      *)
(* actions, whatever the grid.  Refuted: without a player tile, or with    *)
(* the player too close to the right edge, game_fsm and next_state raise.  *)
(***************************************************************************)
C1_TickNeverRaises ==
    /\ exc = "none"
    /\ pc # "raised"
    /\ pc = "run" => action \in Actions

(***************************************************************************)
(* C2.  A grid with a tile code outside {0,1,6,10,13,14} is classified     *)
(* ENEMY, ahead of any 13 or 6.                                            *)
(***************************************************************************)
\* C2 as stated, for the calls that return: whenever the classified grid holds a
\* hostile code the mode is ENEMY
C2_HostileAlwaysEnemy ==
    (Classified /\ exc = "none" /\ HostilePresent) => current_state = ENEMY_MODE

\* C2 as amended: ENEMY ahead of 13/6 unless the early exit of the COLLECT and
\* ENEMY cases forces NORMAL; a call that raises leaves the mode as it was
C2_HostileEnemyUnlessShortcut ==
    (Classified /\ HostilePresent) =>
        IF ClassifierRaises
        THEN exc # "none" /\ current_state = mode_in
        ELSE /\ exc = "none"
             /\ current_state = IF ShortcutTaken THEN NORMAL_MODE ELSE ENEMY_MODE

C2_Witness ==
    /\ Classified /\ exc = "none"
    /\ HostilePresent /\ LootPresent /\ ~ShortcutTaken
    /\ current_state = ENEMY_MODE

(***************************************************************************)
(* C3.  A grid with a 13 or 6 and no hostile code is classified COLLECT.   *)
(***************************************************************************)
\* C3 as stated, for the calls that return
C3_LootAlwaysCollect ==
    (Classified /\ exc = "none" /\ LootPresent /\ ~HostilePresent) =>
        current_state = COIN_MODE

\* C3 as amended: COLLECT unless the early exit of the COLLECT and ENEMY cases
\* forces NORMAL; a call that raises leaves the mode as it was
C3_LootCollectUnlessShortcut ==
    (Classified /\ LootPresent /\ ~HostilePresent) =>
        IF ClassifierRaises
        THEN exc # "none" /\ current_state = mode_in
        ELSE /\ exc = "none"
             /\ current_state = IF ShortcutTaken THEN NORMAL_MODE ELSE COIN_MODE

C3_Witness ==
    /\ Classified /\ exc = "none"
    /\ Present(13) /\ ~HostilePresent /\ ~ShortcutTaken
    /\ mode_in = ENEMY_MODE
    /\ current_state = COIN_MODE

(***************************************************************************)
(* C4.  With a non-empty cell three columns ahead of the player the next   *)
(* mode is NORMAL, whatever else the grid holds.                           *)
(***************************************************************************)
\* C4 as stated: in NORMAL or ENEMY mode
C4_ShortcutNormalEnemy ==
    (Classified /\ mode_in \in {NORMAL_MODE, ENEMY_MODE} /\ ObstacleAhead) =>
        (exc = "none" /\ current_state = NORMAL_MODE)

\* C4 as amended: in COLLECT or ENEMY mode
C4_ShortcutCollectEnemy ==
    (Classified /\ mode_in \in {COIN_MODE, ENEMY_MODE} /\ ObstacleAhead) =>
        (exc = "none" /\ current_state = NORMAL_MODE)

C4_Witness ==
    /\ Classified /\ mode_in = ENEMY_MODE /\ ObstacleAhead
    /\ HostilePresent /\ LootPresent
    /\ current_state = NORMAL_MODE

(***************************************************************************)
(* C5.  In COLLECT mode the classifier follows the priority order (hostile *)
(* -> ENEMY, else 13/6 -> COLLECT, else NORMAL).                           *)
(***************************************************************************)
\* C5 as stated: with no early exit, whatever is three columns ahead
C5_CollectNoShortcut ==
    (Classified /\ mode_in = COIN_MODE /\ AheadExists(3)) =>
        (exc = "none" /\ current_state = PriorityOrder)

\* C5 as amended: only when the cell three columns ahead is empty; a non-empty
\* cell there forces NORMAL
C5_CollectShortcut ==
    (Classified /\ mode_in = COIN_MODE /\ AheadExists(3)) =>
        /\ exc = "none"
        /\ current_state = IF Ahead(3) # 0 THEN NORMAL_MODE ELSE PriorityOrder

C5_Witness ==
    /\ Classified /\ mode_in = COIN_MODE /\ ObstacleAhead
    /\ PriorityOrder = COIN_MODE
    /\ current_state = NORMAL_MODE

(***************************************************************************)
(* C6.  Without a player tile the Navigation Heuristic returns RIGHT,      *)
(* target or no target, and does not raise.  Refuted: it returns DOWN when *)
(* the target is absent too and raises TypeError when it is present.       *)
(***************************************************************************)
C6_NoPlayerReturnsRight ==
    (NavCalled /\ ~Present(1)) => (exc = "none" /\ action = RIGHT_ARROW)

(***************************************************************************)
(* C7.  With the player present and the target code absent the Navigation  *)
(* Heuristic returns DOWN, whatever the two readings.                      *)
(***************************************************************************)
C7_NoTargetReturnsDown ==
    (NavCalled /\ Present(1) /\ ~Present(consumable)) =>
        (exc = "none" /\ action = DOWN_ARROW)

C7_Witness ==
    /\ NavCalled /\ Present(1) /\ ~Present(consumable)
    /\ ground # 0 /\ speed = 0
    /\ action = DOWN_ARROW

(***************************************************************************)
(* C8.  With the target column equal to the player column or one more,     *)
(* the result is BUTTON_A when ground contact is nonzero and speed is      *)
(* zero, and DOWN otherwise.                                               *)
(***************************************************************************)
C8_InBandJumpOrDown ==
    (NavCalled /\ TargetInBand) =>
        /\ exc = "none"
        /\ action = IF ground # 0 /\ speed = 0 THEN BUTTON_A ELSE DOWN_ARROW

\* the all-ones ground byte, moving, target one column ahead
C8_Witness ==
    /\ NavCalled /\ TargetInBand
    /\ TargetCell[2] = PlayerCell[2] + 1
    /\ ground = 255 /\ speed # 0
    /\ action = DOWN_ARROW

(***************************************************************************)
(* C9.  With the target column outside the band the result is RIGHT when   *)
(* the player column is smaller and LEFT when it is greater, whatever the  *)
(* two readings.                                                           *)
(***************************************************************************)
C9_OutOfBandLeftRight ==
    (NavCalled /\ TargetOutOfBand) =>
        /\ exc = "none"
        /\ action = IF PlayerCell[2] < TargetCell[2] THEN RIGHT_ARROW
                    ELSE LEFT_ARROW

C9_Witness ==
    /\ NavCalled /\ TargetOutOfBand
    /\ PlayerCell[2] > TargetCell[2]
    /\ ground = 0 /\ speed = 255
    /\ action = LEFT_ARROW

Gap == mario_x - enemy_x
Distance == IF Gap < 0 THEN 0 - Gap ELSE Gap
Grounded == ground # 0

(***************************************************************************)
(* C11.  In ENEMY mode the selector returns BUTTON_A when the gap is       *)
(* below 15 and the player is grounded, else BUTTON_A when the gap is      *)
(* below 5 and the player is grounded with zero speed, else DOWN; so an    *)
(* enemy whose horizontal distance from the player is 15 or more yields    *)
(* DOWN.  Refuted: the code compares the signed difference mario_x -       *)
(* enemy_x, which is negative for every enemy ahead of the player, so a    *)
(* grounded player jumps however far ahead the enemy is.                   *)
(***************************************************************************)
C11_FarEnemyDown ==
    (Selected /\ current_state = ENEMY_MODE /\ Present(1)) =>
        /\ exc = "none"
        /\ action = IF Distance < JumpNowGap /\ Grounded THEN BUTTON_A
                    ELSE IF Distance < CloseGap /\ Grounded /\ speed = 0 THEN BUTTON_A
                    ELSE DOWN_ARROW
        /\ Distance >= JumpNowGap => action = DOWN_ARROW

(***************************************************************************)
(* C12.  In COLLECT mode, with the player on the grid, the selector's      *)
(* result is the navigation result for target 6 when any cell holds 6 and  *)
(* for target 13 otherwise, run for act_freq ticks; a visible 6 takes      *)
(* priority over a visible 13.                                             *)
(***************************************************************************)
C12_CollectDelegates ==
    (Selected /\ current_state = COIN_MODE /\ Present(1)) =>
        LET nav == mario_movement_to_loot(game_area,
                       IF Present(6) THEN 6 ELSE 13, ground, speed)
        IN  /\ exc = nav.exc
            /\ exc = "none" => (action = nav.val /\ duration = act_freq)

\* both codes visible, and the two targets call for different actions
C12_Witness ==
    /\ Selected /\ current_state = COIN_MODE /\ Present(1)
    /\ Present(6) /\ Present(13)
    /\ mario_movement_to_loot(game_area, 6, ground, speed) #
           mario_movement_to_loot(game_area, 13, ground, speed)
    /\ action = mario_movement_to_loot(game_area, 6, ground, speed).val

(***************************************************************************)
(* C13.  The mode is NORMAL when the engine starts and, after any number   *)
(* of ticks over any grids, is always one of NORMAL, ENEMY, COLLECT.       *)
(***************************************************************************)
C13_ModeDefined ==
    /\ current_state = NORMAL_MODE
    /\ [](current_state \in Modes)

\* a tick has moved the mode from ENEMY to COLLECT
C13_Witness ==
    /\ Classified /\ exc = "none"
    /\ mode_in = ENEMY_MODE
    /\ current_state = COIN_MODE

\* every cell of the grid is background (0) or player (1)
PlainGrid == \A p \in Cells : game_area[p[1]][p[2]] \in {0, 1}

(***************************************************************************)
(* C14.  In NORMAL mode, on a grid holding only background and player      *)
(* tiles, the selector returns RIGHT for act_freq ticks and the            *)
(* classifier keeps NORMAL, tick after tick.  Refuted: such a grid may     *)
(* hold no player tile, or hold it in the last three columns, and then     *)
(* game_fsm and next_state raise (C1).                                     *)
(***************************************************************************)
C14_PlainGridRunsRight ==
    /\ (Selected /\ current_state = NORMAL_MODE /\ PlainGrid) =>
           (exc = "none" /\ action = RIGHT_ARROW /\ duration = act_freq)
    /\ (Classified /\ mode_in = NORMAL_MODE /\ PlainGrid) =>
           (exc = "none" /\ current_state = NORMAL_MODE)

\* find_position has been called
FindCalled == pc = "find_done"
\* cell p comes before cell q in row-major order, or is q
RowMajorLeq(p, q) == p[1] < q[1] \/ (p[1] = q[1] /\ p[2] <= q[2])

(***************************************************************************)
(* C15.  find_position(grid, code) returns the row-major-first cell equal  *)
(* to code (lowest row, then lowest column in that row), and returns None  *)
(* exactly when no cell of the grid equals code.                           *)
(***************************************************************************)
C15_RowMajorFirst ==
    FindCalled =>
        /\ position = None <=> ~Present(consumable)
        /\ Present(consumable) =>
              /\ position \in Cells
              /\ game_area[position[1]][position[2]] = consumable
              /\ \A q \in Cells : game_area[q[1]][q[2]] = consumable =>
                     RowMajorLeq(position, q)

\* two matches, the one found in a higher column than the other but in a lower row
C15_Witness ==
    /\ FindCalled /\ position # None
    /\ \E q \in Cells :
          /\ game_area[q[1]][q[2]] = consumable
          /\ q[1] > position[1] /\ q[2] < position[2]

(***************************************************************************)
(* C16.  Within a tick the steps run in the order select, execute,         *)
(* classify.  The mode is written only by the classifier step, which       *)
(* comes after the tick's action has been executed, so at most once per    *)
(* tick; selecting and executing leave the mode as it was.                 *)
(***************************************************************************)
C16_TickOrder ==
    [][ /\ pc = "loop" => (pc' \in {"run", "raised"} /\ current_state' = current_state)
        /\ pc = "run" => (pc' = "classify" /\ current_state' = current_state)
        /\ pc = "classify" => pc' \in {"loop", "raised"}
        /\ current_state' # current_state => (pc = "classify" /\ pc' = "loop")
      ]_vars

\* a tick whose classifier step, the last of the tick, has changed the mode
C16_Witness ==
    /\ pc = "loop" /\ Classified
    /\ current_state # mode_in

(***************************************************************************)
(* C17.  The classifier classifies the grid the selector used: the grid    *)
(* is captured once per tick, before the action is executed, and the next  *)
(* mode does not depend on how the grid changed while the action was       *)
(* held.  Refuted: next_state calls game_area() itself, after run_action.  *)
(***************************************************************************)
C17_SameSnapshot ==
    (Classified /\ exc = "none" /\ snap_mode \in Modes) =>
        current_state = snap_mode

(***************************************************************************)
(* C17, amended.  The classifier classifies the grid as it stands after    *)
(* the action has been executed: whenever it returns, the mode is the one  *)
(* the rules give for that grid.                                           *)
(***************************************************************************)
C17_FreshSnapshot ==
    (Classified /\ ~ClassifierRaises) =>
        /\ exc = "none"
        /\ current_state = IF ShortcutTaken THEN NORMAL_MODE ELSE PriorityOrder

\* the grid changed while the action was held, and the mode follows the new grid
C17_Witness ==
    /\ Classified /\ exc = "none"
    /\ snap_mode \in Modes /\ current_state # snap_mode
    /\ current_state = IF ShortcutTaken THEN NORMAL_MODE ELSE PriorityOrder

(***************************************************************************)
(* C19.  With player and target both on the grid, the navigation result    *)
(* depends on the two columns and the two readings only, never on the      *)
(* rows: the row test (rule 8) and the final else (rule 9) never decide,   *)
(* because equal columns are taken by the band rules 4 and 5.              *)
(***************************************************************************)
C19_RowsNeverDecide ==
    (NavCalled /\ Present(1) /\ Present(consumable)) =>
        /\ exc = "none"
        /\ deciding_rule(PlayerCell[1], PlayerCell[2], TargetCell[1],
                         TargetCell[2], ground, speed) \in 4 .. 7
        /\ \A r1, r2 \in RowIdx :
               direction_chain(r1, PlayerCell[2], r2, TargetCell[2],
                               ground, speed) = action

\* target right below the player, in the air: DOWN by a band rule
C19_Witness ==
    /\ NavCalled /\ Present(1) /\ Present(consumable)
    /\ TargetCell[2] = PlayerCell[2] /\ PlayerCell[1] < TargetCell[1]
    /\ ground = 0 /\ speed = 0
    /\ action = DOWN_ARROW

(***************************************************************************)
(* C20.  In ENEMY mode, with the player on the grid, the chosen action is  *)
(* BUTTON_A exactly when the ground reading is nonzero and the signed      *)
(* difference mario_x - enemy_x is below 15, and DOWN otherwise, run for   *)
(* act_freq ticks; the speed reading never matters, and the action is      *)
(* never RIGHT or LEFT.                                                    *)
(***************************************************************************)
C20_EnemySignedGap ==
    (Selected /\ current_state = ENEMY_MODE /\ Present(1)) =>
        /\ exc = "none"
        /\ action = BUTTON_A <=> (Grounded /\ Gap < JumpNowGap)
        /\ action # BUTTON_A => action = DOWN_ARROW
        /\ duration = act_freq

\* grounded and moving, the difference between the two thresholds: the first branch jumps
C20_Witness ==
    /\ Selected /\ current_state = ENEMY_MODE /\ Present(1)
    /\ Grounded /\ speed # 0
    /\ Gap >= CloseGap /\ Gap < JumpNowGap
    /\ action = BUTTON_A

====
